---- MODULE Spec2Model ----
(***************************************************************************)
(* The retry machinery of lazykit (src/src/lazykit/tool_kit.py):           *)
(* DEFAULT_RETRY_CONFIG, setup_retry, retry(...) and the wrapper it        *)
(* builds.  Two threads share the module: one runs setup_retry any number   *)
(* of times, the other builds a wrapper with retry(...) and calls it any    *)
(* number of times.                                                        *)
(* setup_retry and retry each touch DEFAULT_RETRY_CONFIG in two separate   *)
(* statements, so each is two steps; a wrapper call is one step per        *)
(* invocation of the operation (with the handling of its failure) and one  *)
(* step per time.sleep.                                                    *)
(*                                                                         *)
(* Optional arguments are sequences: <<>> is None, <<v>> is the value v.   *)
(* Durations are whole ticks.  Only differences of time.time() are read,   *)
(* so the clock is set back to 0 when a call has returned.                 *)
(*                                                                         *)
(* gen_unique_path (src/src/lazykit/path_kit.py) is modelled beside it,    *)
(* under a specification of its own (SpecPath): a directory of siblings    *)
(* and the two search loops, one step per turn of a loop.                  *)
(***************************************************************************)
EXTENDS Integers, Sequences, FiniteSets, TLC

\* ---------------------------------------------------------------- bounds
MaxRetriesArg == 3      \* largest max_retries passed to retry / setup_retry
MaxDuration == 2        \* largest max_duration passed to retry
MaxSibling == 5         \* largest n of an existing '<stem><delimiter><n><suffix>'

None == <<>>
Some(S) == {<<x>> : x \in S}
Opt(S) == {None} \cup Some(S)

\* error kinds the operation (or the reporter) raises, and values it returns
Kinds == {"E1", "E2"}
Values == {7, 8}

\* the time one invocation of the operation may take
OpTimes == {0, 1}

\* ------------------------------------------------------------ the state
VARIABLES
    config,     \* DEFAULT_RETRY_CONFIG
    setter,     \* the frame of the thread in setup_retry
    builder,    \* the frame of the thread in retry(...); `given` is the
                \* max_retries it was called with
    wrappers,   \* the wrapper built (none at first): the closure of its retry(...)
    call,       \* the frame of the builder's thread while it calls the wrapper
    now,        \* time.time()
    log,        \* what the current call did: invocations, messages, sleeps,
                \* an exception of log_func
    changed,    \* history: setup_retry has written since the wrapper was built
    parent,     \* gen_unique_path: path.parent exists
    files,      \* gen_unique_path: the names that exist in path.parent
    search      \* gen_unique_path: its frame

rvars == <<config, setter, builder, wrappers, call, now, log, changed>>
pvars == <<parent, files, search>>
vars == <<rvars, pvars>>

\* Python truthiness of an optional number: None and 0 are falsy
Falsy(o) == o = None \/ o[1] = 0

\* `o or d`
OrIfNone(o, d) == IF o = None THEN d ELSE o[1]
Or(o, d) == IF Falsy(o) THEN d ELSE o[1]

NoError == [src |-> "", kind |-> "", n |-> 0]
IdleCall == [pc |-> "idle", w |-> 0, attempt |-> 0, current_delay |-> 0,
             start_time |-> 0, outcome |-> "", result |-> None, error |-> NoError]
IdleSetter == [pc |-> "idle", delay |-> 0]
IdleBuilder == [pc |-> "idle", given |-> None, max_retries |-> 0, delay |-> None, backoff |-> 0,
                exceptions |-> {}, max_duration |-> None,
                alert_threshold |-> None, log_func |-> ""]

InitRetry ==
    /\ config = [max_retries |-> 3, delay |-> 1]
    /\ setter = IdleSetter
    /\ builder = IdleBuilder
    /\ wrappers = <<>>
    /\ call = IdleCall
    /\ now = 0
    /\ log = <<>>
    /\ changed = FALSE

\* gen_unique_path not yet called, on an empty directory
StartSearch == [pc |-> "start", start |-> 0, end |-> 0, result |-> None,
                raised |-> FALSE]

Init ==
    /\ InitRetry
    /\ parent = TRUE
    /\ files = {}
    /\ search = StartSearch

\* --------------------------------------------------- setup_retry (107-110)
\* line 109: DEFAULT_RETRY_CONFIG['max_retries'] = max_retries
SetupRetryMaxRetries(max_retries, delay) ==
    /\ setter.pc = "idle"
    /\ config' = [config EXCEPT !.max_retries = max_retries]
    /\ setter' = [pc |-> "delay", delay |-> delay]
    /\ changed' = (wrappers # <<>>)
    /\ UNCHANGED pvars
    /\ UNCHANGED <<builder, wrappers, call, now, log>>

\* line 110: DEFAULT_RETRY_CONFIG['delay'] = delay
SetupRetryDelay ==
    /\ setter.pc = "delay"
    /\ config' = [config EXCEPT !.delay = setter.delay]
    /\ setter' = IdleSetter
    /\ changed' = (wrappers # <<>>)
    /\ UNCHANGED pvars
    /\ UNCHANGED <<builder, wrappers, call, now, log>>

\* ---------------------------------------------------------- retry (113-160)
Backoffs == {1, 2}
ExceptionSets == {{"E1"}}
LogFuncs == {"print", "flaky"}
RetriesArgs == Opt(0 .. MaxRetriesArg)
Delays == {0, 1}
DelayArgs == Opt(Delays)
DurationArgs == Opt(1 .. MaxDuration)
ThresholdArgs == Opt({1, 2})

\* line 135: max_retries = max_retries or DEFAULT_RETRY_CONFIG['max_retries']
ResolveMaxRetries(max_retries) == Or(max_retries, config.max_retries)

\* line 136: delay = delay or DEFAULT_RETRY_CONFIG['delay']
ResolveDelay(delay) == Or(delay, config.delay)

\* retry(...) is entered with its arguments and runs line 135 (a run builds
\* one wrapper)
RetryMaxRetries(max_retries, delay, backoff, exceptions, max_duration, alert_threshold, log_func) ==
    /\ builder.pc = "idle"
    /\ wrappers = <<>>
    /\ builder' = [pc |-> "delay", given |-> max_retries,
                   max_retries |-> ResolveMaxRetries(max_retries),
                   delay |-> delay, backoff |-> backoff,
                   exceptions |-> exceptions, max_duration |-> max_duration,
                   alert_threshold |-> alert_threshold, log_func |-> log_func]
    /\ UNCHANGED pvars
    /\ UNCHANGED <<config, setter, wrappers, call, now, log, changed>>

\* line 136, then decorator(func) returns the wrapper: the closure of
\* max_retries, delay, backoff, exceptions, max_duration, alert_threshold
\* and log_func
RetryDelay ==
    /\ builder.pc = "delay"
    /\ wrappers' = <<
           [max_retries |-> builder.max_retries,
            delay |-> ResolveDelay(builder.delay),
            backoff |-> builder.backoff,
            exceptions |-> builder.exceptions,
            max_duration |-> builder.max_duration,
            alert_threshold |-> builder.alert_threshold,
            log_func |-> builder.log_func]>>
    /\ builder' = IdleBuilder
    /\ UNCHANGED pvars
    /\ UNCHANGED <<config, setter, call, now, log, changed>>

\* ------------------------------------------------- the wrapper (140-156)
\* the closure variables a call of wrapper w reads
LateMaxRetriesOf(w) == config.max_retries
MaxRetriesOf(w) == wrappers[w].max_retries
DelayOf(w) == wrappers[w].delay
BackoffOf(w) == wrappers[w].backoff

\* what a call does, in order
Invoked(n, kind, v) == [ev |-> "invoke", n |-> n, k |-> kind, v |-> v]
Message(n, kind) == [ev |-> "msg", n |-> n, k |-> kind, v |-> 0]
Slept(n, d) == [ev |-> "sleep", n |-> n, k |-> "", v |-> d]
LogFuncRaised(n, kind) == [ev |-> "log_error", n |-> n, k |-> kind, v |-> 0]

\* line 145: return func(*args, **kwargs)
ReturnedNothing(v) == None
Returned(v) == <<v>>

\* line 146: except exceptions as e
RetryableAny(w, kind) == kind \in Kinds
Retryable(w, kind) == kind \in wrappers[w].exceptions

\* line 147: attempt == max_retries
ExhaustedLate(w, n) == n = MaxRetriesOf(w) + 1
Exhausted(w, n) == n = MaxRetriesOf(w)

\* lines 148 and 153: the bare raise, which raises the caught e again
RaisedAnew(e) == [src |-> "retry", kind |-> e.kind, n |-> e.n]
Reraised(e) == e

\* line 149: alert_threshold and attempt >= alert_threshold
AlertDueAfter(w, n) ==
    /\ ~Falsy(wrappers[w].alert_threshold)
    /\ n > wrappers[w].alert_threshold[1]
AlertDue(w, n) ==
    /\ ~Falsy(wrappers[w].alert_threshold)
    /\ n >= wrappers[w].alert_threshold[1]

\* line 151: max_duration and (time.time() - start_time) >= max_duration
DurationExceededAfter(w, elapsed) ==
    /\ ~Falsy(wrappers[w].max_duration)
    /\ elapsed > wrappers[w].max_duration[1]
DurationExceeded(w, elapsed) ==
    /\ ~Falsy(wrappers[w].max_duration)
    /\ elapsed >= wrappers[w].max_duration[1]

\* lines 147-154, the handler of a retryable failure of attempt n, `elapsed`
\* after start_time; log_func raises on its first message of kind `f`
\* ("" when it raises on none).  The messages given to log_func, and how the
\* handler ends: "raise" (the bare raise of line 148 or 153), "log_error"
\* (log_func raised) or "sleep" (on to line 155).
OnFailureElseIf(w, n, elapsed, f) ==
    IF Exhausted(w, n) THEN [msgs |-> <<>>, next |-> "raise"]
    ELSE IF AlertDue(w, n)
    THEN IF f = "warn" THEN [msgs |-> <<"warn">>, next |-> "log_error"]
         ELSE [msgs |-> <<"warn", "retry">>,
               next |-> IF f = "retry" THEN "log_error" ELSE "sleep"]
    ELSE IF DurationExceeded(w, elapsed)
    THEN [msgs |-> <<"term">>,
          next |-> IF f = "term" THEN "log_error" ELSE "raise"]
    ELSE [msgs |-> <<"retry">>,
          next |-> IF f = "retry" THEN "log_error" ELSE "sleep"]
OnFailure(w, n, elapsed, f) ==
    IF Exhausted(w, n) THEN [msgs |-> <<>>, next |-> "raise"]
    ELSE LET warn == IF AlertDue(w, n) THEN <<"warn">> ELSE <<>> IN
         IF warn # <<>> /\ f = "warn"
         THEN [msgs |-> warn, next |-> "log_error"]
         ELSE IF DurationExceeded(w, elapsed)
         THEN [msgs |-> warn \o <<"term">>,
               next |-> IF f = "term" THEN "log_error" ELSE "raise"]
         ELSE [msgs |-> warn \o <<"retry">>,
               next |-> IF f = "retry" THEN "log_error" ELSE "sleep"]

\* the messages log_func may raise on
FailsOn(w) ==
    IF wrappers[w].log_func = "print" THEN {""}
    ELSE {"", "warn", "term", "retry"}

Messages(n, kinds) == [i \in 1 .. Len(kinds) |-> Message(n, kinds[i])]

\* line 142: current_delay = delay
CarriedDelay(w) == IF call.pc = "done" THEN call.current_delay ELSE DelayOf(w)
InitialDelay(w) == DelayOf(w)

\* lines 141-143: the frame of a call of wrapper w that begins at `t`;
\* range(1, max_retries + 1) is empty when max_retries < 1, and the wrapper
\* then returns None
FirstFrame(w, t) ==
    IF 1 <= MaxRetriesOf(w)
    THEN [IdleCall EXCEPT !.pc = "attempt", !.w = w, !.attempt = 1,
                          !.current_delay = InitialDelay(w),
                          !.start_time = t]
    ELSE [IdleCall EXCEPT !.pc = "done", !.w = w,
                          !.current_delay = InitialDelay(w),
                          !.start_time = t,
                          !.outcome = "returned"]

\* an exception of log_func, raised inside the handler of lines 146-154,
\* leaves the wrapper
LogFuncRetried(frame, n, kind) == [frame EXCEPT !.pc = "sleep"]
LogFuncPropagates(frame, n, kind) ==
    [frame EXCEPT !.pc = "done", !.outcome = "raised",
                  !.error = [src |-> "log_func", kind |-> kind, n |-> n]]

\* lines 141-143: a call of wrapper w begins
CallStart(w) ==
    /\ call.pc = "idle"
    /\ builder.pc = "idle"
    /\ w \in 1 .. Len(wrappers)
    /\ call' = FirstFrame(w, now)
    /\ UNCHANGED pvars
    /\ UNCHANGED <<config, setter, builder, wrappers, now, log, changed>>

\* line 145 and, when func raises, lines 146-154: func takes `d`, and
\* returns v (kind "ok") or raises an error of `kind`; log_func raises an
\* error of kind `fk` on its first message of kind `f`
Attempt(kind, v, d, f, fk) ==
    /\ call.pc = "attempt"
    /\ f \in FailsOn(call.w)
    /\ now' = now + d
    /\ LET w == call.w
           n == call.attempt
           e == [src |-> "func", kind |-> kind, n |-> n]
           h == OnFailure(w, n, now' - call.start_time, f)
       IN  IF kind = "ok"
           THEN /\ call' = [call EXCEPT !.pc = "done", !.outcome = "returned",
                                        !.result = Returned(v)]
                /\ log' = Append(log, Invoked(n, kind, v))
           ELSE IF ~Retryable(w, kind)
           THEN /\ call' = [call EXCEPT !.pc = "done", !.outcome = "raised",
                                        !.error = e]
                /\ log' = Append(log, Invoked(n, kind, 0))
           ELSE /\ log' = Append(log, Invoked(n, kind, 0)) \o Messages(n, h.msgs)
                          \o (IF h.next = "log_error"
                              THEN <<LogFuncRaised(n, fk)>> ELSE <<>>)
                /\ call' =
                     CASE h.next = "raise" ->
                            [call EXCEPT !.pc = "done", !.outcome = "raised",
                                         !.error = Reraised(e)]
                       [] h.next = "log_error" -> LogFuncPropagates(call, n, fk)
                       [] OTHER -> [call EXCEPT !.pc = "sleep"]
    /\ UNCHANGED pvars
    /\ UNCHANGED <<config, setter, builder, wrappers, changed>>

\* lines 155-156 and the next turn of the for loop of line 143
SleepAfterBackoff ==
    /\ call.pc = "sleep"
    /\ now' = now + call.current_delay * BackoffOf(call.w)
    /\ log' = Append(log, Slept(call.attempt,
                                call.current_delay * BackoffOf(call.w)))
    /\ call' = IF call.attempt + 1 <= MaxRetriesOf(call.w)
               THEN [call EXCEPT !.pc = "attempt",
                                 !.current_delay = @ * BackoffOf(call.w),
                                 !.attempt = @ + 1]
               ELSE [call EXCEPT !.pc = "done", !.outcome = "returned",
                                 !.current_delay = @ * BackoffOf(call.w)]
    /\ UNCHANGED pvars
    /\ UNCHANGED <<config, setter, builder, wrappers, changed>>
Sleep ==
    /\ call.pc = "sleep"
    /\ now' = now + call.current_delay
    /\ log' = Append(log, Slept(call.attempt, call.current_delay))
    /\ call' = IF call.attempt + 1 <= MaxRetriesOf(call.w)
               THEN [call EXCEPT !.pc = "attempt",
                                 !.current_delay = @ * BackoffOf(call.w),
                                 !.attempt = @ + 1]
               ELSE [call EXCEPT !.pc = "done", !.outcome = "returned",
                                 !.current_delay = @ * BackoffOf(call.w)]
    /\ UNCHANGED pvars
    /\ UNCHANGED <<config, setter, builder, wrappers, changed>>

\* the caller has the call's result; the next call starts from nothing
CallReturn ==
    /\ call.pc = "done"
    /\ call' = IdleCall
    /\ log' = <<>>
    /\ now' = 0
    /\ UNCHANGED pvars
    /\ UNCHANGED <<config, setter, builder, wrappers, changed>>

\* the caller has the call's result and calls the wrapper again; what stays
\* of the call that ended is a note at the head of the log: its last attempt,
\* how it ended and the current_delay it ended with
CallAgain(w) ==
    /\ call.pc = "done"
    /\ builder.pc = "idle"
    /\ w \in 1 .. Len(wrappers)
    /\ now' = 0
    /\ call' = FirstFrame(w, now')
    /\ log' = <<[ev |-> "call", n |-> call.attempt, k |-> call.outcome,
                 v |-> call.current_delay]>>
    /\ UNCHANGED pvars
    /\ UNCHANGED <<config, setter, builder, wrappers, changed>>

\* the (max_retries, delay) setup_retry is called with
SetupArgs == (0 .. MaxRetriesArg) \X Delays

\* every step but the first of setup_retry
Others ==
    \/ SetupRetryDelay
    \/ \E m \in RetriesArgs, d \in DelayArgs, b \in Backoffs,
          x \in ExceptionSets, md \in DurationArgs, a \in ThresholdArgs,
          l \in LogFuncs :
           RetryMaxRetries(m, d, b, x, md, a, l)
    \/ RetryDelay
    \/ CallStart(1)
    \/ \E kind \in Kinds \cup {"ok"}, v \in Values \cup {0}, d \in OpTimes,
          f \in {"", "warn", "term", "retry"}, fk \in Kinds \cup {""} :
           /\ (v = 0) = (kind # "ok")
           /\ (fk = "") = (f = "")
           /\ Attempt(kind, v, d, f, fk)
    \/ Sleep
    \/ CallReturn

Next ==
    \/ \E a \in SetupArgs : SetupRetryMaxRetries(a[1], a[2])
    \/ Others

Spec == Init /\ [][Next]_vars

\* The same program with setup_retry called with pairs that share no
\* max_retries and no delay with one another or with the initial pair of
\* line 14: a resolved pair is then one of them only if one call stored it.
TogetherArgs == {<<2, 0>>, <<1, 2>>}
InitialPair == <<3, 1>>

NextTogether ==
    \/ \E a \in TogetherArgs : SetupRetryMaxRetries(a[1], a[2])
    \/ Others

SpecTogether == Init /\ [][NextTogether]_vars

\* One wrapper, built with the configuration of line 14, called again and
\* again.
NextCalls ==
    \/ \E m \in RetriesArgs, d \in DelayArgs, b \in Backoffs,
          x \in ExceptionSets, md \in DurationArgs, a \in ThresholdArgs,
          l \in LogFuncs :
           RetryMaxRetries(m, d, b, x, md, a, l)
    \/ RetryDelay
    \/ CallStart(1)
    \/ \E kind \in Kinds \cup {"ok"}, v \in Values \cup {0}, d \in OpTimes,
          f \in {"", "warn", "term", "retry"}, fk \in Kinds \cup {""} :
           /\ (v = 0) = (kind # "ok")
           /\ (fk = "") = (f = "")
           /\ Attempt(kind, v, d, f, fk)
    \/ Sleep
    \/ CallAgain(1)

SpecCalls == Init /\ [][NextCalls]_vars

\* ------------------------------------- gen_unique_path (path_kit 161-201)
\* The names of path.parent: 0 is `path` itself, n >= 1 is
\* parent / f'{stem}{delimiter}{n}{suffix}' (a different name for every n,
\* and none of them the name of `path`).  Nothing else touches the
\* directory while gen_unique_path runs.
InputPath == 0
Candidate(n) == n

\* Path(...).exists()
Exists(name) == name \in files

\* lines 188-194: one turn of the second loop, from (start, end)
BisectBelow(start, end) ==
    LET mid == (start + end) \div 2
    IN  IF Exists(Candidate(mid)) THEN <<mid + 1, end>> ELSE <<start, mid - 1>>
Bisect(start, end) ==
    LET mid == (start + end) \div 2
    IN  IF Exists(Candidate(mid)) THEN <<mid + 1, end>> ELSE <<start, mid>>

\* lines 172-183: the parent must exist; a path that does not exist is
\* returned as it is; otherwise start, end = 1, 1
GenUniquePathEnter ==
    /\ search.pc = "start"
    /\ search' =
         IF ~parent
         THEN [search EXCEPT !.pc = "done", !.raised = TRUE]
         ELSE IF ~Exists(InputPath)
         THEN [search EXCEPT !.pc = "done", !.result = <<InputPath>>]
         ELSE [search EXCEPT !.pc = "probe", !.start = 1, !.end = 1]
    /\ UNCHANGED <<parent, files>>
    /\ UNCHANGED rvars

\* lines 184-185: while Path(... end ...).exists(): end *= 2
GenUniquePathProbe ==
    /\ search.pc = "probe"
    /\ search' =
         IF Exists(Candidate(search.end))
         THEN [search EXCEPT !.end = @ * 2]
         ELSE [search EXCEPT !.pc = "bisect"]
    /\ UNCHANGED <<parent, files>>
    /\ UNCHANGED rvars

\* lines 187-196: while start < end: ...; return the candidate `start`
GenUniquePathBisect ==
    /\ search.pc = "bisect"
    /\ search' =
         IF search.start < search.end
         THEN [search EXCEPT !.start = Bisect(search.start, search.end)[1],
                             !.end = Bisect(search.start, search.end)[2]]
         ELSE [search EXCEPT !.pc = "done",
                             !.result = <<Candidate(search.start)>>]
    /\ UNCHANGED <<parent, files>>
    /\ UNCHANGED rvars

\* any directory with siblings numbered up to MaxSibling, with or without
\* `path` in it, contiguous from 1 or with gaps
InitPath ==
    /\ InitRetry
    /\ parent \in BOOLEAN
    /\ files \in SUBSET (0 .. MaxSibling)
    /\ ~parent => files = {}
    /\ search = StartSearch

NextPath ==
    \/ GenUniquePathEnter
    \/ GenUniquePathProbe
    \/ GenUniquePathBisect

\* a call of gen_unique_path that has begun goes on running
SpecPath == InitPath /\ [][NextPath]_vars /\ WF_vars(NextPath)

\* ------------------------------------------------------------ the claims
\* what the log of the current call holds
RECURSIVE Pow(_, _)
Pow(b, e) == IF e = 0 THEN 1 ELSE b * Pow(b, e - 1)

IsInvoke(e) == e.ev = "invoke"
IsSleep(e) == e.ev = "sleep"
IsMsg(e) == e.ev = "msg"
Invocations == Len(SelectSeq(log, IsInvoke))
Sleeps == SelectSeq(log, IsSleep)
Msgs == SelectSeq(log, IsMsg)
Done == call.pc = "done"
W == wrappers[call.w]

\* every invocation of the current call failed with a retryable error
AlwaysFailing ==
    /\ Invocations >= 1
    /\ \A i \in DOMAIN log :
           IsInvoke(log[i]) => Retryable(call.w, log[i].k)

\* the outcome C1 states: m invocations, m - 1 sleeps of
\* delay * backoff^(i-1), and the operation's error raised
ExhaustedOutcome ==
    /\ Invocations = W.max_retries
    /\ Len(Sleeps) = W.max_retries - 1
    /\ \A i \in DOMAIN Sleeps : Sleeps[i].v = W.delay * Pow(W.backoff, i - 1)
    /\ call.outcome = "raised"
    /\ call.error.src = "func"

\* C1 as stated: for any resolved max_retries = m >= 1, a finished call whose
\* operation failed with a retryable error on every attempt has invoked it
\* exactly m times, slept m - 1 times, the i-th sleep lasting
\* delay * backoff^(i-1), and ended by raising.
C1_AsStated ==
    (Done /\ W.max_retries >= 1 /\ AlwaysFailing) => ExhaustedOutcome

\* C1 as amended: the same, for a call of a wrapper with no max_duration set
\* whose log_func did not raise.
C1_ExhaustedRetries ==
    (/\ Done /\ W.max_retries >= 1 /\ AlwaysFailing
     /\ Falsy(W.max_duration)
     /\ call.error.src # "log_func") => ExhaustedOutcome

C1_Witness ==
    /\ Done /\ AlwaysFailing
    /\ Falsy(W.max_duration) /\ call.error.src # "log_func"
    /\ W.max_retries = 3 /\ W.delay = 1 /\ W.backoff = 2
    /\ Invocations = 3
    /\ Len(Sleeps) = 2 /\ Sleeps[1].v = 1 /\ Sleeps[2].v = 2

\* C2: when the invocation of attempt k returns V (the attempts before it
\* having failed with retryable errors), the call ends there: it returns
\* exactly V, the operation has been invoked exactly k times, k <= max_retries,
\* at most k - 1 sleeps have occurred, and nothing (message, sleep,
\* invocation) follows the successful invocation.
C2_SuccessReturns ==
    \A i \in DOMAIN log :
        (IsInvoke(log[i]) /\ log[i].k = "ok") =>
            /\ i = Len(log)
            /\ Done
            /\ call.outcome = "returned"
            /\ call.result = <<log[i].v>>
            /\ Invocations = log[i].n
            /\ log[i].n <= W.max_retries
            /\ Len(Sleeps) <= log[i].n - 1

C2_Witness ==
    /\ Done /\ call.outcome = "returned" /\ call.result = <<8>>
    /\ Invocations = 2 /\ Len(Sleeps) = 1
    /\ log[1].k = "E1" /\ log[Len(log)].k = "ok"
    /\ Falsy(W.max_duration)

\* C3: an invocation (the first or a later one) that fails with an error
\* whose kind is not in `exceptions` ends the call: that error is raised to
\* the caller, and no message, sleep or invocation follows it; when it is the
\* first attempt, the operation has been invoked exactly once.
C3_NonRetryablePropagates ==
    \A i \in DOMAIN log :
        (IsInvoke(log[i]) /\ log[i].k # "ok" /\ log[i].k \notin W.exceptions) =>
            /\ i = Len(log)
            /\ Done
            /\ call.outcome = "raised"
            /\ call.error = [src |-> "func", kind |-> log[i].k, n |-> log[i].n]
            /\ Invocations = log[i].n
            /\ (log[i].n = 1 => Invocations = 1)

C3_Witness ==
    /\ Done /\ call.outcome = "raised"
    /\ call.error = [src |-> "func", kind |-> "E2", n |-> 2]
    /\ Invocations = 2
    /\ log[Len(log)] = Invoked(2, "E2", 0)

\* the call ended at line 148: a retryable failure, and nothing after it
ExhaustionSeen ==
    /\ Done /\ call.outcome = "raised" /\ call.error.src = "func"
    /\ call.error.kind \in W.exceptions
    /\ IsInvoke(log[Len(log)])

\* C4: a wrapper's max_retries and delay are those resolved when retry(...)
\* built it.  retry(...) without an override takes the value
\* DEFAULT_RETRY_CONFIG holds when line 135 (136) runs, so a setup_retry
\* before it changes what it resolves; once the wrapper is built no step
\* (a setup_retry least of all) changes it, and every call of it counts its
\* attempts against that max_retries and sleeps first for that delay.
C4_ResolvedAtConstruction ==
    /\ [][/\ (builder.pc = "idle" /\ builder'.pc = "delay"
                 /\ builder'.given = None) =>
               builder'.max_retries = config.max_retries
          /\ (builder.pc = "delay" /\ builder'.pc = "idle") =>
               /\ wrappers'[1].max_retries = builder.max_retries
               /\ builder.delay = None => wrappers'[1].delay = config.delay
          /\ wrappers # <<>> => wrappers' = wrappers]_vars
    /\ [](call.pc \in {"attempt", "sleep"} => call.attempt <= W.max_retries)
    /\ [](call.pc = "sleep" => call.attempt < W.max_retries)
    /\ [](ExhaustionSeen => call.attempt = W.max_retries)
    /\ []((Done /\ Invocations = 0) => W.max_retries < 1)
    /\ [](Sleeps # <<>> => Sleeps[1].v = W.delay)

C4_Witness ==
    /\ changed
    /\ ExhaustionSeen
    /\ W.max_retries = 3 /\ config.max_retries = 1
    /\ W.delay = 1 /\ config.delay = 0
    /\ Invocations = 3
    /\ Sleeps[1].v = 1

\* C5: for max_retries and for delay, each on its own, an override that is
\* None or 0 resolves to the value DEFAULT_RETRY_CONFIG holds when its line
\* runs, any other override resolves to itself, and an explicit 0 resolves
\* to 0 only when the default is 0 then.
C5_FalsyMeansAbsent ==
    [][/\ (builder.pc = "idle" /\ builder'.pc = "delay") =>
            /\ builder'.max_retries =
                 IF builder'.given = None \/ builder'.given = <<0>>
                 THEN config.max_retries ELSE builder'.given[1]
            /\ (builder'.given = <<0>> /\ builder'.max_retries = 0) =>
                 config.max_retries = 0
       /\ (builder.pc = "delay" /\ builder'.pc = "idle") =>
            /\ wrappers'[1].delay =
                 IF builder.delay = None \/ builder.delay = <<0>>
                 THEN config.delay ELSE builder.delay[1]
            /\ (builder.delay = <<0>> /\ wrappers'[1].delay = 0) =>
                 config.delay = 0]_vars

C5_Witness ==
    /\ builder.pc = "delay"
    /\ builder.given = <<0>> /\ builder.max_retries = 2
    /\ builder.delay = <<0>> /\ config.delay = 1

\* C6 as stated: with alert_threshold = t set, log_func is given the warning
\* at every retryable failure of an attempt numbered >= t and at none
\* numbered < t.
C6_AsStated ==
    \A i \in DOMAIN log :
        (/\ IsInvoke(log[i]) /\ log[i].k \in W.exceptions
         /\ ~Falsy(W.alert_threshold)) =>
            ((\E j \in DOMAIN log : log[j] = Message(log[i].n, "warn"))
                <=> log[i].n >= W.alert_threshold[1])

\* C6 as amended: log_func is given the warning at every retryable failure
\* of an attempt numbered >= t and < max_retries, and at no other failure
\* (none at the last attempt, none when alert_threshold is not set).
C6_WarningBeforeLastAttempt ==
    \A i \in DOMAIN log :
        (IsInvoke(log[i]) /\ log[i].k \in W.exceptions) =>
            ((\E j \in DOMAIN log : log[j] = Message(log[i].n, "warn"))
                <=> /\ ~Falsy(W.alert_threshold)
                    /\ log[i].n >= W.alert_threshold[1]
                    /\ log[i].n < W.max_retries)

C6_Witness ==
    /\ Done /\ AlwaysFailing /\ Invocations = 3
    /\ W.alert_threshold = <<2>> /\ W.max_retries = 3
    /\ \E j \in DOMAIN log : log[j] = Message(2, "warn")
    /\ \A j \in DOMAIN log : log[j] # Message(1, "warn")
    /\ \A j \in DOMAIN log : log[j] # Message(3, "warn")

\* the sum of the first k backoff delays of the current call's wrapper
RECURSIVE SumDelays(_)
SumDelays(k) ==
    IF k <= 0 THEN 0 ELSE SumDelays(k - 1) + W.delay * Pow(W.backoff, k - 1)

\* the call ended through the duration cutoff of lines 151-153
CutOff ==
    /\ \E j \in DOMAIN log : log[j].ev = "msg" /\ log[j].k = "term"
    /\ call.outcome = "raised"
    /\ call.error.src = "func"
    /\ Invocations < W.max_retries

\* C7 as stated (for a log_func that does not raise): an always-failing call
\* of a wrapper whose max_duration is set and smaller than the sum of all
\* max_retries - 1 backoff delays ends through the duration cutoff.
C7_AsStated ==
    (/\ Done /\ AlwaysFailing
     /\ call.error.src # "log_func"
     /\ ~Falsy(W.max_duration)
     /\ W.max_duration[1] < SumDelays(W.max_retries - 1)) => CutOff

\* C7 as amended: the same when max_duration is at most the sum of the first
\* max_retries - 2 backoff delays, the time that has passed for certain when
\* the last attempt but one fails.
C7_CutOffBeforeLastAttempt ==
    (/\ Done /\ AlwaysFailing
     /\ call.error.src # "log_func"
     /\ ~Falsy(W.max_duration)
     /\ W.max_duration[1] <= SumDelays(W.max_retries - 2)) => CutOff

C7_Witness ==
    /\ Done /\ AlwaysFailing /\ CutOff
    /\ W.max_retries = 3 /\ W.delay = 1 /\ W.max_duration = <<1>>
    /\ now - call.start_time = 1
    /\ Invocations = 2

\* C8: a call that ends in failure otherwise than by log_func raising
\* (retries exhausted, duration exceeded, error not retryable) raises the
\* very error its most recent invocation raised: same object, same kind,
\* nothing of the retry machinery's own.
C8_RaisesLastError ==
    (Done /\ call.outcome = "raised" /\ call.error.src # "log_func") =>
        \E i \in DOMAIN log :
            /\ IsInvoke(log[i])
            /\ log[i].n = Invocations
            /\ \A j \in DOMAIN log : IsInvoke(log[j]) => log[j].n <= log[i].n
            /\ call.error = [src |-> "func", kind |-> log[i].k, n |-> log[i].n]

C8_Witness ==
    /\ Done /\ CutOff
    /\ Invocations = 2
    /\ log[1].k = "E1"
    /\ call.error = [src |-> "func", kind |-> "E1", n |-> 2]

\* C9 as stated: every resolved policy has max_retries >= 1.
C9_AsStated ==
    /\ builder.pc = "delay" => builder.max_retries >= 1
    /\ wrappers # <<>> => wrappers[1].max_retries >= 1

\* C10 as stated: retry(...) called without overrides while setup_retry runs
\* in another thread resolves a (max_retries, delay) pair that one
\* setup_retry call stored, or the initial pair.
C10_AsStated ==
    [][(/\ builder.pc = "delay" /\ builder'.pc = "idle"
        /\ builder.given = None /\ builder.delay = None) =>
           <<wrappers'[1].max_retries, wrappers'[1].delay>>
               \in TogetherArgs \cup {InitialPair}]_vars

\* C11: gen_unique_path ends (both loops terminate), and when it returns, it
\* returns a path that does not exist: `path` itself when that does not
\* exist, and otherwise a numbered candidate that does not exist, whatever
\* numbered siblings exist, contiguous from 1 or with gaps.
C11_UniquePath ==
    /\ []((search.pc = "done" /\ ~search.raised) =>
            /\ search.result # None
            /\ ~Exists(search.result[1])
            /\ (~Exists(InputPath) <=> search.result = <<InputPath>>)
            /\ (Exists(InputPath) => search.result[1] >= 1))
    /\ [](search.pc = "done" => (search.raised <=> ~parent))
    /\ <>(search.pc = "done")

\* a directory with gaps: path, and the siblings 1, 2, 4 and 5
C11_Witness ==
    /\ search.pc = "done"
    /\ files = {0, 1, 2, 4, 5}
    /\ search.result = <<6>>

\* what the step of an attempt adds to the log
Added == SubSeq(log', Len(log) + 1, Len(log'))
IsLogError(e) == e.ev = "log_error"
\* the call's log_func has returned from every message so far
LogFuncReturned == SelectSeq(log, IsLogError) = <<>>
\* an attempt of the current call ends in a retryable failure, and log_func
\* returns from every message of its handling
RetryableFailureStep ==
    /\ call.pc = "attempt"
    /\ Len(log') > Len(log)
    /\ IsInvoke(Added[1])
    /\ Added[1].k \in W.exceptions
    /\ \A i \in DOMAIN Added : ~IsLogError(Added[i])
AlertReached(n) ==
    /\ W.alert_threshold # None
    /\ n >= W.alert_threshold[1]
DurationElapsed(t) ==
    /\ W.max_duration # None
    /\ t >= W.max_duration[1]
\* a finished call does nothing more
DoneIsFinal ==
    call.pc = "done" =>
        \/ call' = call /\ log' = log /\ now' = now
        \/ call'.pc = "idle" /\ log' = <<>>

IsRetryMsg(e) == e.ev = "msg" /\ e.k = "retry"
\* log[i] is the failed invocation of attempt n
FailedInvoke(i, n) ==
    /\ i \in DOMAIN log
    /\ IsInvoke(log[i])
    /\ log[i].n = n
    /\ log[i].k \in W.exceptions

CutOffSeen ==
    /\ Done
    /\ \E i \in DOMAIN log : log[i].ev = "msg" /\ log[i].k = "term"
Elapsed == now - call.start_time
\* delay * backoff^j for the largest j a sleep of the call has had so far
\* (0 when the call has not slept)
LargestSleep ==
    IF Sleeps = <<>> THEN 0
    ELSE W.delay * Pow(W.backoff, Len(Sleeps) - 1)

Earlier == log[1]
HasEarlier == log # <<>> /\ log[1].ev = "call"

\* C15: every call of one wrapper begins at attempt 1 with current_delay equal
\* to the delay resolved when the wrapper was built and with a start time of
\* its own, whatever the attempts, sleeps and multiplications of the call
\* before it; and a call changes nothing of the wrapper.
C15_FreshCall ==
    /\ [][(call.pc \in {"idle", "done"} /\ call'.pc \notin {"idle", "done"}) =>
            /\ call'.pc = "attempt"
            /\ call'.attempt = 1
            /\ call'.current_delay = wrappers[call'.w].delay
            /\ call'.start_time = now'
            /\ call'.outcome = ""
            /\ call'.result = None
            /\ call'.error = NoError]_vars
    /\ [][call.pc # "idle" => wrappers' = wrappers]_vars
C15_Witness ==
    /\ HasEarlier
    /\ Earlier.n = 3
    /\ Earlier.v = 4
    /\ W.delay = 1
    /\ call.pc = "attempt"
    /\ call.attempt = 1
    /\ call.current_delay = 1
    /\ Len(log) = 1

\* C16: when log_func raises on a message of the handling of a retryable
\* failure of attempt n, its exception leaves the wrapper and the retrying
\* stops there: the call is over with that exception, nothing follows it in
\* the log (no sleep, no further invocation), current_delay is not multiplied,
\* also when the exception is of a kind in `exceptions`.
C16_ReporterErrorPropagates ==
    \A i \in DOMAIN log :
        IsLogError(log[i]) =>
            /\ i = Len(log)
            /\ i > 1
            /\ IsMsg(log[i - 1])
            /\ log[i - 1].n = log[i].n
            /\ Done
            /\ call.outcome = "raised"
            /\ call.error =
                 [src |-> "log_func", kind |-> log[i].k, n |-> log[i].n]
            /\ call.attempt = log[i].n
            /\ Invocations = log[i].n
            /\ Len(Sleeps) = log[i].n - 1
            /\ call.current_delay = W.delay * Pow(W.backoff, log[i].n - 1)
C16_Witness ==
    /\ Done
    /\ W.max_retries = 3
    /\ W.backoff = 2
    /\ "E1" \in W.exceptions
    /\ log = <<Invoked(1, "E1", 0), Message(1, "retry"), Slept(1, 1),
               Invoked(2, "E1", 0), Message(2, "retry"),
               LogFuncRaised(2, "E1")>>
    /\ call.error = [src |-> "log_func", kind |-> "E1", n |-> 2]
    /\ call.current_delay = 2

\* C17 as stated: every finished call has invoked the operation at least
\* once, and it has either returned the value the last invocation returned or
\* raised the error the last invocation or log_func raised.
C17_AsStated ==
    Done =>
        /\ Invocations >= 1
        /\ call.outcome \in {"returned", "raised"}
        /\ call.outcome = "returned" =>
               \E i \in DOMAIN log :
                   /\ IsInvoke(log[i])
                   /\ log[i].k = "ok"
                   /\ call.result = <<log[i].v>>
        /\ call.outcome = "raised" =>
               \E i \in DOMAIN log :
                   /\ IsInvoke(log[i]) \/ IsLogError(log[i])
                   /\ log[i].k = call.error.kind
                   /\ log[i].n = call.error.n

\* C18: a retryable failure of the last attempt (n = max_retries) is raised
\* again before any other check: nothing follows its invocation in the log
\* (no warning, no termination message, no 'retrying' message, no sleep) and
\* the call is over with that error, also with alert_threshold reached and
\* max_duration elapsed; a termination message is of an attempt below
\* max_retries.
C18_LastAttemptReraises ==
    call.pc \in {"attempt", "sleep", "done"} =>
        \A i \in DOMAIN log :
            /\ (FailedInvoke(i, W.max_retries)) =>
                   /\ i = Len(log)
                   /\ Done
                   /\ call.outcome = "raised"
                   /\ call.error = [src |-> "func", kind |-> log[i].k,
                                    n |-> W.max_retries]
            /\ (IsMsg(log[i]) /\ log[i].k = "term") =>
                   log[i].n < W.max_retries
C18_Witness ==
    /\ Done
    /\ W.max_retries = 2
    /\ W.alert_threshold = <<1>>
    /\ W.max_duration = <<2>>
    /\ Elapsed >= 2
    /\ log = <<Invoked(1, "E1", 0), Message(1, "warn"), Message(1, "retry"),
               Slept(1, 1), Invoked(2, "E1", 0)>>
    /\ call.error = [src |-> "func", kind |-> "E1", n |-> 2]
====
